---- MODULE Spec2Model ----
(***************************************************************************)
(* ChatTube RAG API: the session held by RAGService (app/rag_service.py)   *)
(* and the request handlers of app/main.py.                                *)
(*                                                                         *)
(* Every endpoint is an `async def` coroutine whose body contains no       *)
(* await: once the event loop has entered a handler it runs it to its      *)
(* response before it enters another one.  Requests that arrive meanwhile  *)
(* stay pending.  The external calls a handler makes (captions, embedding, *)
(* generation) are steps of their own, each of which returns or raises.    *)
(***************************************************************************)
EXTENDS Integers, Sequences, FiniteSets, TLC

\* ------------------------------------------------------------- bounds ----
NClients == 2               \* callers, each with at most one request in flight
MaxIngest == 2              \* ingestions submitted in one run of the process

Clients == 1..NClients
\* The video ids and the questions the callers send that pass the validation
\* of the request models, and payloads that do not.
Videos == {"AAAAAAAAAAA", "BBBBBBBBBBB"}
Questions == {"what do cats do"}
MalformedIds == {"A"}
MalformedQuestions == {""}

VerticalTab == ""
OghamSpace == " "

RECURSIVE Repeat(_, _)
Repeat(word, n) ==
    IF n = 0 THEN ""
    ELSE LET half == Repeat(word, n \div 2)
         IN half \o half \o (IF n % 2 = 1 THEN word ELSE "")

\* A snippet of 1904 characters without a separator in it.
LongSnippet == Repeat("abcdefg", 272)

\* The snippets the caption provider can answer ytt_api.fetch(v) with.  The
\* first video has two snippets, the second ending in a vertical tab, or no
\* snippet at all; the other has one long snippet, or three empty ones.
CaptionsOf(v) ==
    IF v = "AAAAAAAAAAA"
      THEN {<<>>, <<"cats are great pets", "cats purr" \o VerticalTab>>}
      ELSE {<<"", "", "">>, <<LongSnippet>>}

Captions == UNION {CaptionsOf(v) : v \in Videos}

\* What the generation model answers.
Answers == {" I don't know.\n"}

ProviderMessages == {"no element found", "video unavailable"}

\* The messages of the exceptions the libraries raise (the splitter, the
\* embedding service, FAISS, the chain): str(e) in the except clauses.
ErrorMessages == {"connection refused"}

NoVideoMessage == "No video has been processed yet. Please process a video first."

\* What a call of a library ends in: it returns, or it raises with a message.
Returned == [raised |-> FALSE, msg |-> ""]

Raises(m) == [raised |-> TRUE, msg |-> m]

CallOutcomes == {Returned} \cup {Raises(m) : m \in ErrorMessages}

\* The chain can raise with any message, the one of line 191 included.
InvokeOutcomes == CallOutcomes \cup {Raises(NoVideoMessage)}

NoOutcome == [kind |-> "none", snippets |-> <<>>, msg |-> ""]

\* What ytt_api.fetch ends in: snippets, TranscriptsDisabled, or another
\* failure with its message.
ProviderOutcomes ==
    {[NoOutcome EXCEPT !.kind = "ok", !.snippets = c] : c \in Captions}
      \cup {[NoOutcome EXCEPT !.kind = "disabled"]}
      \cup {[NoOutcome EXCEPT !.kind = "error", !.msg = m] : m \in ProviderMessages}

\* ---------------------------------------------------------- constants ----
chunk_size == 1000
chunk_overlap == 200
k == 2

VARIABLES
    rag_service,      \* main.py global: "None" or "RAGService"
    self,             \* the fields of the RAGService instance
    reqs,             \* per caller: its request in flight, Idle if it has none
    resp,             \* the response the last step sent, NoResponse if none
    served,           \* whether a response has been sent so far
    ningest,          \* ingestions the event loop has entered so far
    running,          \* caller whose handler the event loop is inside, 0 if none
    last_ok,          \* the index built by the last successful ingestion
    nok               \* number of successful ingestions so far

vars ==
    <<rag_service, self, reqs, resp, served, ningest, running, last_ok, nok>>

\* -------------------------------------------------------------- values ----
\* Python's None for an object-valued field.  An index built by ingestion n for
\* video v from the chunks docs is [vid |-> v, by |-> n, docs |-> docs]; a
\* retriever is named by the index it is bound to, a chain by the index its
\* captured retriever is bound to.
None == [vid |-> "None", by |-> 0, docs |-> <<>>]

NoVideo == "None"

Index(v, n, docs) == [vid |-> v, by |-> n, docs |-> docs]

EmptySession ==
    [vector_store |-> None, retriever |-> None, chain |-> None,
     current_video_id |-> NoVideo]

NoResult ==
    [video_id |-> NoVideo, chunks_count |-> -1, src |-> None,
     current_video_id |-> NoVideo, ready |-> FALSE, service_status |-> "",
     retrieved |-> <<>>, context |-> "", generated |-> "", answer |-> ""]

\* Which index object this is: the ingestion that built it and its video.
Ref(idx) == [idx EXCEPT !.docs = <<>>]

\* Which objects the fields of the session refer to.
snapshot(s) ==
    [s EXCEPT !.vector_store = Ref(@), !.retriever = Ref(@), !.chain = Ref(@)]

\* A local of process_video that has not been assigned yet.
Unassigned == <<"<unassigned>">>

\* payload is the video_id of a ProcessVideoRequest, the question of a
\* ChatRequest.  transcript_text and chunks are the locals of process_video
\* ("" and Unassigned until they are assigned); provider is what the caption
\* provider answered; fault names the step whose external call raised by
\* itself, if one did; pre is the snapshot of the session taken when the
\* request was taken up.
NewRequest(kind, payload) ==
    [kind |-> kind,
     video_id |-> IF kind = "process" THEN payload ELSE NoVideo,
     question |-> IF kind = "chat" THEN payload ELSE "",
     id |-> 0, pc |-> "pending", steps |-> <<>>,
     responses |-> 0, raced |-> FALSE, provider |-> NoOutcome,
     transcript_text |-> "", chunks |-> Unassigned, fault |-> "",
     pre |-> EmptySession, follows_empty |-> FALSE]

Idle == [NewRequest("none", NoVideo) EXCEPT !.pc = "idle"]

Response(req, code, detail, result) ==
    [kind |-> req.kind, video_id |-> req.video_id, question |-> req.question,
     id |-> req.id,
     steps |-> req.steps, responses |-> req.responses + 1, raced |-> req.raced,
     provider |-> req.provider, transcript_text |-> req.transcript_text,
     chunks |-> req.chunks, fault |-> req.fault, pre |-> req.pre,
     follows_empty |-> req.follows_empty,
     status_code |-> code, detail |-> detail, result |-> result]

NoResponse == [Response(Idle, 0, "", NoResult) EXCEPT !.responses = 0]

NotReadyDetail == "No video has been processed yet. Please process a video first using /process-video endpoint."

QuestionFailedPrefix == "Failed to process question: "

AnswerFailedPrefix == "Failed to answer question: "

\* ask_question, line 201, wrapped by main.py chat, line 186.
InvokeFailedDetail(msg) == QuestionFailedPrefix \o AnswerFailedPrefix \o msg

\* The exception of line 191 is raised inside the try of ask_question, so it
\* is wrapped like any other.
ChainMissingDetail == InvokeFailedDetail(NoVideoMessage)

ProcessFailedPrefix == "Failed to process transcript: "

StoreFailedPrefix == "Failed to create vector store: "

ChainFailedPrefix == "Failed to setup RAG chain: "

Unavailable == "RAG service is not available"

DisabledDetail == "Transcripts are disabled for this video"

FetchFailedPrefix == "Failed to fetch transcript: "

\* ------------------------------------------------------ pure functions ----
\* models.py: Field(..., min_length=11, max_length=11) on video_id,
\* Field(..., min_length=1) on question; /status and /health take no body.
validate(kind, payload) ==
    CASE kind = "process" -> Len(payload) >= 11 /\ Len(payload) <= 11
      [] kind = "chat" -> Len(payload) >= 1
      [] OTHER -> TRUE

\* The type of the validation error (the payloads are strings).
validation_error(kind, payload) ==
    IF kind = "process" /\ Len(payload) > 11 THEN "string_too_long"
    ELSE "string_too_short"

is_ready_chain_only(s) == s.chain # None

\* RAGService.is_ready
is_ready(s) == s.chain # None /\ s.current_video_id # NoVideo

get_current_video_id_of_index(s) == s.vector_store.vid

\* RAGService.get_current_video_id
get_current_video_id(s) == s.current_video_id

\* " ".join(snippet.text for snippet in trans_list.snippets), line 66.
RECURSIVE join(_)
join(snippets) ==
    IF snippets = <<>> THEN ""
    ELSE IF Len(snippets) = 1 THEN snippets[1]
    ELSE snippets[1] \o " " \o join(Tail(snippets))

fetch_failure_detail_generic(outcome) == FetchFailedPrefix \o outcome.msg

\* fetch_transcript, lines 71-76: the message of the exception it raises.
fetch_failure_detail(outcome) ==
    IF outcome.kind = "disabled" THEN DisabledDetail
    ELSE FetchFailedPrefix \o outcome.msg

Min(a, b) == IF a < b THEN a ELSE b

\* The characters str.strip() removes from the ends of a text: those for
\* which str.isspace() holds.  After the space and the four that have an
\* escape come the vertical tab, the four separators 1C to 1F, the next line
\* 85, the no-break space A0 and the ogham space mark 1680.  The other
\* characters of str.isspace(), 2000 to 200A, 2028, 2029, 202F, 205F and
\* 3000, are characters the parser of a module rejects inside a string, so
\* no text of Transcripts holds one and a set of strings cannot list them.
Whitespace ==
    {" ", "\t", "\n", "\r", "\f", VerticalTab,
     "", "", "", "", "", " ", OghamSpace}

At(text, i) == SubSeq(text, i, i)

\* str.strip(): the text from its first to its last character that is not
\* whitespace.
strip(text) ==
    IF text = "" THEN ""
    ELSE IF At(text, 1) \notin Whitespace /\ At(text, Len(text)) \notin Whitespace
      THEN text
    ELSE IF \A i \in 1..Len(text) : At(text, i) \in Whitespace THEN ""
    ELSE LET first == CHOOSE i \in 1..Len(text) :
                          /\ At(text, i) \notin Whitespace
                          /\ \A j \in 1..(i - 1) : At(text, j) \in Whitespace
             last == CHOOSE i \in 1..Len(text) :
                          /\ At(text, i) \notin Whitespace
                          /\ \A j \in (i + 1)..Len(text) : At(text, j) \in Whitespace
         IN SubSeq(text, first, last)

\* RecursiveCharacterTextSplitter's default separators, tried in this order.
Separators == <<"\n\n", "\n", " ", "">>

\* The first of a run of line feeds that position i lies in.
RunStart(text, i) ==
    CHOOSE j \in 1..i :
        /\ \A m \in j..i : At(text, m) = "\n"
        /\ j = 1 \/ At(text, j - 1) # "\n"

\* Where re.split finds the separator in the text, from left to right without
\* overlap: every occurrence of a separator of one character, every second
\* line feed of a run for "\n\n".
Matches(text, sep) ==
    IF Len(sep) = 1 THEN {i \in 1..Len(text) : At(text, i) = sep}
    ELSE {i \in 1..(Len(text) - 1) :
             /\ SubSeq(text, i, i + 1) = sep
             /\ (i - RunStart(text, i)) % 2 = 0}

\* Where the splits of a text begin: the separator is kept at the start of the
\* split it precedes; with the separator "" every character is a split.
SplitStarts(text, sep) ==
    IF sep = "" THEN 1..Len(text) ELSE {1} \cup Matches(text, sep)

\* The start of the split after the one that starts at p, one past the end of
\* the text if that is the last.
NextStart(text, starts, p) ==
    CHOOSE e \in (p + 1)..(Len(text) + 1) :
        /\ e = Len(text) + 1 \/ e \in starts
        /\ \A j \in (p + 1)..(e - 1) : j \notin starts

\* TextSplitter._merge_splits on the splits that lie between from and to - 1,
\* each shorter than chunk_size: splits are added to a chunk while it stays
\* within chunk_size; the chunk is then joined, stripped, and kept unless
\* nothing is left of it; the next chunk starts with the splits at the end of
\* this one that make up chunk_overlap at most and leave room for the split
\* that did not fit.
RECURSIVE merge_splits(_, _, _, _)
merge_splits(text, starts, from, to) ==
    IF from >= to THEN <<>>
    ELSE LET reach == Min(to, from + chunk_size)
             end == CHOOSE e \in (from + 1)..reach :
                        /\ e = to \/ e \in starts
                        /\ \A j \in (e + 1)..reach : j # to /\ j \notin starts
             doc == strip(SubSeq(text, from, end - 1))
             docs == IF doc = "" THEN <<>> ELSE <<doc>>
         IN IF end = to THEN docs
            ELSE LET len == NextStart(text, starts, end) - end
                     keep == CHOOSE b \in (from + 1)..end :
                               /\ b = end \/ b \in starts
                               /\ end - b <= chunk_overlap
                               /\ end - b + len <= chunk_size \/ end = b
                               /\ \A j \in (from + 1)..(b - 1) :
                                     ~ /\ j \in starts
                                       /\ end - j <= chunk_overlap
                                       /\ end - j + len <= chunk_size
                 IN docs \o merge_splits(text, starts, keep, to)

\* The start of the first split from p on that is chunk_size long or longer,
\* one past the end of the text if there is none.
NextLong(text, starts, p) ==
    CHOOSE b \in p..(Len(text) + 1) :
        /\ \/ b = Len(text) + 1
           \/ b \in starts /\ NextStart(text, starts, b) - b >= chunk_size
        /\ \A j \in p..(b - 1) :
              j \in starts => NextStart(text, starts, j) - j < chunk_size

\* RecursiveCharacterTextSplitter._split_text: the text is split at the first
\* separator of the list that occurs in it; the splits shorter than chunk_size
\* are merged run by run, a split that is longer is split again with the
\* separators that follow.  split_from goes through the splits from the one
\* that starts at p on.
RECURSIVE split_text(_, _)
RECURSIVE split_from(_, _, _, _)
split_text(text, separators) ==
    IF text = "" THEN <<>>
    ELSE LET chars == {At(text, i) : i \in 1..Len(text)}
             found(sep) ==
                 \/ sep = ""
                 \/ Len(sep) = 1 /\ sep \in chars
                 \/ Len(sep) = 2 /\ At(sep, 1) \in chars /\ Matches(text, sep) # {}
             i == CHOOSE n \in 1..Len(separators) :
                      /\ found(separators[n])
                      /\ \A m \in 1..(n - 1) : ~found(separators[m])
             sep == separators[i]
             rest == IF sep = "" THEN <<>>
                     ELSE SubSeq(separators, i + 1, Len(separators))
             starts == SplitStarts(text, sep)
         IN IF sep = "" THEN merge_splits(text, starts, 1, Len(text) + 1)
            ELSE split_from(text, starts, rest, 1)

split_from(text, starts, rest, p) ==
    IF p > Len(text) THEN <<>>
    ELSE LET q == NextStart(text, starts, p) IN
         IF q - p >= chunk_size
           THEN (IF rest = <<>> THEN <<SubSeq(text, p, q - 1)>>
                 ELSE split_text(SubSeq(text, p, q - 1), rest))
                \o split_from(text, starts, rest, q)
           ELSE LET to == NextLong(text, starts, p) IN
                merge_splits(text, starts, p, to)
                \o split_from(text, starts, rest, to)

process_transcript_keep_empty(text) ==
    IF strip(text) = "" THEN <<"">> ELSE split_text(text, Separators)

\* process_transcript, lines 88-91: the page contents of
\* RecursiveCharacterTextSplitter(chunk_size, chunk_overlap)
\* .create_documents([transcript_text]), in their order.
process_transcript(text) == split_text(text, Separators)

\* The transcripts fetch_transcript can return.
Transcripts == {join(snippets) : snippets \in Captions}

\* process_transcript, line 90: what create_documents makes of each transcript,
\* computed once.
create_documents == [text \in Transcripts |-> process_transcript(text)]

\* FAISS.from_documents sizes the index from the first embedding: it raises on
\* an empty list of chunks whatever the embedding service answers.
from_documents_ok(chunks, embed_ok) == chunks # <<>> /\ embed_ok

\* str(e) of what FAISS.from_documents raised: the exception of the embedding
\* service, or the IndexError of reading the first embedding of none.
from_documents_error(outcome) ==
    IF outcome.raised THEN outcome.msg ELSE "list index out of range"

\* The documents in the order of their ranks, from rank i on.
RECURSIVE similarity_search(_, _, _)
similarity_search(docs, ranking, i) ==
    IF i > Len(docs) THEN <<>>
    ELSE <<docs[ranking[i]]>> \o similarity_search(docs, ranking, i + 1)

\* The retriever of lines 107-110 (search_type "similarity", k = 2): of the
\* documents of the index it is bound to, ranked by their similarity to the
\* question, the first k, or all of them if there are fewer.
get_relevant_documents(idx, ranking) ==
    SubSeq(similarity_search(idx.docs, ranking, 1), 1, Min(k, Len(idx.docs)))

\* _setup_chain.format_docs, lines 122-124: "\n\n".join of the page contents.
RECURSIVE format_docs(_)
format_docs(docs) ==
    IF docs = <<>> THEN ""
    ELSE IF Len(docs) = 1 THEN docs[1]
    ELSE docs[1] \o "\n\n" \o format_docs(Tail(docs))

\* The orders in which similarity can rank the n documents of an index.
Rankings(n) ==
    {f \in [1..n -> 1..n] : \A i, j \in 1..n : f[i] = f[j] => i = j}

\* ---------------------------------------------------- session updates ----
store_index_always(s, idx, ok) == [s EXCEPT !.vector_store = idx]

\* create_vector_store, line 106: the assignment happens only if
\* FAISS.from_documents returned.
store_index(s, idx, ok) ==
    IF ok THEN [s EXCEPT !.vector_store = idx] ELSE s

\* create_vector_store, lines 107-110: the retriever is bound to the index that
\* self.vector_store holds at that moment.
store_retriever(s, ok) ==
    IF ok THEN [s EXCEPT !.retriever = s.vector_store] ELSE s

store_chain_once(s, ok) ==
    IF ok /\ s.chain = None THEN [s EXCEPT !.chain = s.retriever] ELSE s

\* _setup_chain, lines 127-133: the chain captures the retriever object that
\* self.retriever holds at that moment.
store_chain(s, ok) ==
    IF ok THEN [s EXCEPT !.chain = s.retriever] ELSE s

\* process_video, line 163.
store_video_id(s, v) == [s EXCEPT !.current_video_id = v]

ask_question_resetting(s, ok) == IF ok THEN s ELSE [s EXCEPT !.chain = None]

\* ask_question, lines 189-201: it reads self.chain and assigns nothing.
ask_question(s, ok) == s

\* ------------------------------------------------------- control flow ----
next_pc_retrying(step, ok) ==
    IF ~ok THEN step
    ELSE CASE step = "fetch" -> "split"
           [] step = "split" -> "build"
           [] step = "build" -> "retriever"
           [] step = "retriever" -> "chain"
           [] step = "chain" -> "finish"
           [] OTHER -> "done"

\* process_video lines 150-177 and ask_question lines 189-201: a step that
\* raises ends the request (every except clause re-raises), a step that
\* returns is followed by the next statement.
next_pc(step, ok) ==
    IF ~ok THEN "done"
    ELSE CASE step = "fetch" -> "split"
           [] step = "split" -> "build"
           [] step = "build" -> "retriever"
           [] step = "retriever" -> "chain"
           [] step = "chain" -> "finish"
           [] OTHER -> "done"

chat_gate_unchecked(svc, s) ==
    IF svc = "None" THEN 503
    ELSE IF s.chain = None THEN 500
    ELSE 0

\* main.py chat lines 157-167 and ask_question lines 190-191: the status the
\* handler answers with before it invokes the chain, 0 if it goes on.
chat_gate(svc, s) ==
    IF svc = "None" THEN 503
    ELSE IF ~is_ready(s) THEN 400
    ELSE IF s.chain = None THEN 500
    ELSE 0

chat_gate_detail(code) ==
    CASE code = 503 -> Unavailable
      [] code = 400 -> NotReadyDetail
      [] code = 500 -> ChainMissingDetail
      [] OTHER -> ""

\* ---------------------------------------------------------- scheduling ----
\* The endpoints are coroutines without an await: the event loop enters a
\* handler only when it is inside none.
CanEnter == running = 0

RespondHolding(r, req, code, detail, result) ==
    /\ resp' = Response(req, code, detail, result)
    /\ served' = TRUE
    /\ reqs' = [reqs EXCEPT ![r] = Idle]
    /\ running' = r

\* The handler of caller r returns (or raises the HTTPException) that becomes
\* its one response; the event loop is free again.
Respond(r, req, code, detail, result) ==
    /\ resp' = Response(req, code, detail, result)
    /\ served' = TRUE
    /\ reqs' = [reqs EXCEPT ![r] = Idle]
    /\ running' = 0

\* The step sends nothing: the handler goes on, or a request only arrives.
NoReply == resp' = NoResponse /\ UNCHANGED served

Took(req, name) == [req EXCEPT !.steps = Append(@, name)]

\* The call made in step name raised (the embedding service was down, the
\* library failed): what the except clauses of rag_service.py catch.
Raised(req, name, bad) == IF bad THEN [req EXCEPT !.fault = name] ELSE req

\* ---------------------------------------------------------------- Init ----
Init ==
    /\ rag_service = "None"
    /\ self = EmptySession
    /\ reqs = [c \in Clients |-> Idle]
    /\ resp = NoResponse
    /\ served = FALSE
    /\ ningest = 0
    /\ running = 0
    /\ last_ok = None
    /\ nok = 0

\* ------------------------------------------------------------- actions ----
\* main.py lifespan, lines 27-41: at startup, before any request is served,
\* rag_service = RAGService(), whose __init__ sets the session fields to None.
lifespan ==
    /\ rag_service = "None"
    /\ running = 0 /\ ~served
    /\ rag_service' = "RAGService"
    /\ self' = EmptySession
    /\ NoReply
    /\ UNCHANGED <<reqs, ningest, running, last_ok, nok>>

\* The body of a request: its video_id or its question.
body(req) == IF req.kind = "process" THEN req.video_id ELSE req.question

\* The request is one that FastAPI hands to process_video.
ingestion(req) == req.kind = "process" /\ validate(req.kind, body(req))

Waiting == {c \in Clients : ingestion(reqs[c]) /\ reqs[c].pc = "pending"}

Ingesting == {c \in Clients : ingestion(reqs[c])}

\* The request is one whose handler reads or writes the session.
uses_session(req) ==
    req.kind \in {"process", "chat", "status"} /\ validate(req.kind, body(req))

\* The response sent last is the one of an ingestion whose transcript came
\* back from the provider and was empty, and no ingestion has succeeded so
\* far.
after_empty_transcript ==
    /\ resp.kind = "process" /\ resp.provider.kind = "ok"
    /\ resp.transcript_text = ""
    /\ nok = 0

\* A caller sends a request; it waits until the event loop takes it.  raced
\* records, for a request whose handler uses the session, that it was in
\* flight together with an ingestion; follows_empty records, for a chat, that
\* its caller sent it on the response to an ingestion of an empty transcript
\* before any ingestion had succeeded.
Submit(c, kind, payload) ==
    /\ reqs[c].pc = "idle"
    /\ ingestion(NewRequest(kind, payload)) =>
          ningest + Cardinality(Waiting) < MaxIngest
    /\ reqs' = [d \in Clients |->
                  IF d = c
                    THEN [NewRequest(kind, payload) EXCEPT
                            !.raced = uses_session(NewRequest(kind, payload))
                                        /\ Ingesting # {},
                            !.follows_empty =
                                kind = "chat" /\ validate(kind, payload)
                                  /\ after_empty_transcript]
                  ELSE IF ingestion(NewRequest(kind, payload))
                          /\ uses_session(reqs[d]) /\ reqs[d].pc # "idle"
                    THEN [reqs[d] EXCEPT !.raced = TRUE]
                  ELSE reqs[d]]
    /\ NoReply
    /\ UNCHANGED <<rag_service, self, ningest, running, last_ok, nok>>

\* A pending request whose body the request model rejects: when the event
\* loop takes it up FastAPI answers 422 and calls no handler.
request_validation_error(r) ==
    /\ CanEnter
    /\ reqs[r].pc = "pending"
    /\ ~validate(reqs[r].kind, body(reqs[r]))
    /\ Respond(r, [reqs[r] EXCEPT !.pre = snapshot(self)], 422,
               validation_error(reqs[r].kind, body(reqs[r])), NoResult)
    /\ UNCHANGED <<rag_service, self, ningest, last_ok, nok>>

\* main.py process_video, lines 117-126: the handler begins.
process_video_enter(r) ==
    /\ CanEnter
    /\ reqs[r].kind = "process" /\ reqs[r].pc = "pending"
    /\ validate("process", reqs[r].video_id)
    /\ ningest' = ningest + 1
    /\ LET req == [reqs[r] EXCEPT !.id = ningest + 1, !.pre = snapshot(self)] IN
       IF rag_service = "None"
         THEN Respond(r, req, 400, "503: RAG service is not available", NoResult)
         ELSE /\ reqs' = [reqs EXCEPT ![r] = [req EXCEPT !.pc = "fetch"]]
              /\ running' = r
              /\ NoReply
    /\ UNCHANGED <<rag_service, self, last_ok, nok>>

\* RAGService.fetch_transcript, lines 62-76.
fetch_transcript(r, outcome) ==
    /\ reqs[r].pc = "fetch"
    /\ outcome.kind = "ok" => outcome.snippets \in CaptionsOf(reqs[r].video_id)
    /\ LET ok == outcome.kind = "ok"
           np == next_pc("fetch", ok)
           req == [Raised(Took(reqs[r], "fetch"), "fetch", ~ok)
                      EXCEPT !.provider = outcome]
       IN IF np = "done"
            THEN Respond(r, req, 400, fetch_failure_detail(outcome), NoResult)
            ELSE /\ reqs' = [reqs EXCEPT ![r] =
                       [req EXCEPT !.pc = np,
                                   !.transcript_text =
                                       IF ok THEN join(outcome.snippets) ELSE @]]
                 /\ NoReply /\ UNCHANGED running
    /\ UNCHANGED <<rag_service, self, ningest, last_ok, nok>>

\* RAGService.process_transcript, lines 88-95.
process_transcript_step(r, outcome) ==
    /\ reqs[r].pc = "split"
    /\ LET ok == ~outcome.raised
           np == next_pc("split", ok)
           req == Raised(Took(reqs[r], "split"), "split", ~ok)
       IN IF np = "done"
            THEN Respond(r, req, 400, ProcessFailedPrefix \o outcome.msg,
                         NoResult)
            ELSE /\ reqs' = [reqs EXCEPT ![r] =
                       [req EXCEPT !.pc = np,
                                   !.chunks = IF ok
                                       THEN create_documents[req.transcript_text]
                                       ELSE @]]
                 /\ NoReply /\ UNCHANGED running
    /\ UNCHANGED <<rag_service, self, ningest, last_ok, nok>>

\* RAGService.create_vector_store, lines 106 and 113-115.
create_vector_store_index(r, outcome) ==
    /\ reqs[r].pc = "build"
    /\ LET ok == from_documents_ok(reqs[r].chunks, ~outcome.raised)
           np == next_pc("build", ok)
           req == Raised(Took(reqs[r], "build"), "build", outcome.raised)
       IN /\ self' = store_index(self, Index(req.video_id, req.id, req.chunks), ok)
          /\ IF np = "done"
               THEN Respond(r, req, 400,
                       StoreFailedPrefix \o from_documents_error(outcome),
                       NoResult)
               ELSE /\ reqs' = [reqs EXCEPT ![r] = [req EXCEPT !.pc = np]]
                    /\ NoReply /\ UNCHANGED running
    /\ UNCHANGED <<rag_service, ningest, last_ok, nok>>

\* RAGService.create_vector_store, lines 107-110 and 113-115.
create_vector_store_retriever(r, outcome) ==
    /\ reqs[r].pc = "retriever"
    /\ LET ok == ~outcome.raised
           np == next_pc("retriever", ok)
           req == Raised(Took(reqs[r], "retriever"), "retriever", ~ok)
       IN /\ self' = store_retriever(self, ok)
          /\ IF np = "done"
               THEN Respond(r, req, 400, StoreFailedPrefix \o outcome.msg,
                            NoResult)
               ELSE /\ reqs' = [reqs EXCEPT ![r] = [req EXCEPT !.pc = np]]
                    /\ NoReply /\ UNCHANGED running
    /\ UNCHANGED <<rag_service, ningest, last_ok, nok>>

\* RAGService._setup_chain, lines 119-138, called from line 112: what it
\* raises in line 138 is wrapped once more in line 115.
setup_chain(r, outcome) ==
    /\ reqs[r].pc = "chain"
    /\ LET ok == ~outcome.raised
           np == next_pc("chain", ok)
           req == Raised(Took(reqs[r], "chain"), "chain", ~ok)
       IN /\ self' = store_chain(self, ok)
          /\ IF np = "done"
               THEN Respond(r, req, 400,
                       StoreFailedPrefix \o ChainFailedPrefix \o outcome.msg,
                       NoResult)
               ELSE /\ reqs' = [reqs EXCEPT ![r] = [req EXCEPT !.pc = np]]
                    /\ NoReply /\ UNCHANGED running
    /\ UNCHANGED <<rag_service, ningest, last_ok, nok>>

chunks_count_one(chunks) == 1

\* The chunks_count of the result, line 168, which main.py line 131 copies
\* into the response.
chunks_count(chunks) == Len(chunks)

\* RAGService.process_video, lines 163-173, and main.py lines 128-136.
process_video_finish(r) ==
    /\ reqs[r].pc = "finish"
    /\ self' = store_video_id(self, reqs[r].video_id)
    /\ Respond(r, Took(reqs[r], "finish"), 200, "Video processed successfully",
               [NoResult EXCEPT !.video_id = reqs[r].video_id,
                                !.chunks_count = chunks_count(reqs[r].chunks)])
    /\ last_ok' = Index(reqs[r].video_id, reqs[r].id, reqs[r].chunks)
    /\ nok' = nok + 1
    /\ UNCHANGED <<rag_service, ningest>>

\* main.py chat, lines 155-170, and RAGService.ask_question, lines 189-191.
chat_enter(r) ==
    /\ CanEnter
    /\ reqs[r].kind = "chat" /\ reqs[r].pc = "pending"
    /\ validate("chat", reqs[r].question)
    /\ LET code == chat_gate(rag_service, self)
           req == [reqs[r] EXCEPT !.pre = snapshot(self)]
       IN
       IF code # 0
         THEN Respond(r, req, code, chat_gate_detail(code), NoResult)
         ELSE /\ reqs' = [reqs EXCEPT ![r] = [req EXCEPT !.pc = "invoke"]]
              /\ running' = r
              /\ NoReply
    /\ UNCHANGED <<rag_service, self, ningest, last_ok, nok>>

\* The last two stages of the chain of line 133.  self.llm answers the prompt
\* with a message whose content is the text the model generated;
\* StrOutputParser takes the content out of the message and changes nothing
\* in it.
llm(text) == [type |-> "ai", content |-> text]

StrOutputParser(message) == message.content

\* models.py ChatResponse as main.py lines 172-175 builds it from what
\* ask_question returned (line 170).
ChatResponse(answer) == [answer |-> answer, status |-> "success"]

\* RAGService.ask_question, lines 194-201, and main.py lines 170-187: the chain
\* of line 133 retrieves from the index its retriever was bound to, formats
\* what it retrieved into the context of the prompt, has the model generate
\* a message, and parses the message into the answer ask_question returns;
\* the endpoint wraps that answer into its response.
chain_invoke(r, outcome, text) ==
    /\ reqs[r].pc = "invoke"
    /\ \E ranking \in Rankings(Len(self.chain.docs)) :
       LET ok == ~outcome.raised
           docs == get_relevant_documents(self.chain, ranking)
           message == llm(text)
           answer == StrOutputParser(message)
           response == ChatResponse(answer)
           np == next_pc("invoke", ok)
           req == Raised(Took(reqs[r], "invoke"), "invoke", ~ok)
       IN /\ self' = ask_question(self, ok)
          /\ IF np # "done"
               THEN /\ reqs' = [reqs EXCEPT ![r] = [req EXCEPT !.pc = np]]
                    /\ NoReply /\ UNCHANGED running
               ELSE IF ok
               THEN Respond(r, req, 200, response.status,
                       [NoResult EXCEPT !.src = Ref(self.chain),
                                        !.current_video_id = self.current_video_id,
                                        !.retrieved = docs,
                                        !.context = format_docs(docs),
                                        !.generated = message.content,
                                        !.answer = response.answer])
               ELSE Respond(r, req, 500, InvokeFailedDetail(outcome.msg),
                            NoResult)
    /\ UNCHANGED <<rag_service, ningest, last_ok, nok>>

\* main.py get_status, lines 194-207.
get_status(r) ==
    /\ CanEnter
    /\ reqs[r].kind = "status" /\ reqs[r].pc = "pending"
    /\ IF rag_service = "None"
         THEN Respond(r, [reqs[r] EXCEPT !.pre = snapshot(self)], 200, "",
                      [NoResult EXCEPT !.service_status = "not_initialized"])
         ELSE Respond(r, [reqs[r] EXCEPT !.pre = snapshot(self)], 200, "",
                      [NoResult EXCEPT !.service_status = "initialized",
                                       !.current_video_id = get_current_video_id(self),
                                       !.ready = is_ready(self)])
    /\ UNCHANGED <<rag_service, self, ningest, last_ok, nok>>

\* main.py health_check, lines 88-105: the 503 it raises inside the try is
\* caught by its own except clause, which raises the 503 that is sent.
health_check(r) ==
    /\ CanEnter
    /\ reqs[r].kind = "health" /\ reqs[r].pc = "pending"
    /\ IF rag_service = "None"
         THEN Respond(r, [reqs[r] EXCEPT !.pre = snapshot(self)], 503,
                      "Service is not healthy", NoResult)
         ELSE Respond(r, [reqs[r] EXCEPT !.pre = snapshot(self)], 200,
                      "All services are operational",
                      [NoResult EXCEPT !.service_status = "healthy"])
    /\ UNCHANGED <<rag_service, self, ningest, last_ok, nok>>

\* ---------------------------------------------------------------- Next ----
Next ==
    \/ lifespan
    \/ \E c \in Clients, v \in Videos \cup MalformedIds : Submit(c, "process", v)
    \/ \E c \in Clients, q \in Questions \cup MalformedQuestions :
          Submit(c, "chat", q)
    \/ \E c \in Clients : Submit(c, "status", NoVideo)
    \/ \E c \in Clients : Submit(c, "health", NoVideo)
    \/ \E r \in Clients : request_validation_error(r)
    \/ \E r \in Clients : process_video_enter(r)
    \/ \E r \in Clients, o \in ProviderOutcomes : fetch_transcript(r, o)
    \/ \E r \in Clients, o \in CallOutcomes : process_transcript_step(r, o)
    \/ \E r \in Clients, o \in CallOutcomes : create_vector_store_index(r, o)
    \/ \E r \in Clients, o \in CallOutcomes : create_vector_store_retriever(r, o)
    \/ \E r \in Clients, o \in CallOutcomes : setup_chain(r, o)
    \/ \E r \in Clients : process_video_finish(r)
    \/ \E r \in Clients : chat_enter(r)
    \/ \E r \in Clients, o \in InvokeOutcomes, t \in Answers :
          chain_invoke(r, o, t)
    \/ \E r \in Clients : get_status(r)
    \/ \E r \in Clients : health_check(r)

Spec == Init /\ [][Next]_vars

\* The event loop runs the tasks that are ready in the order they became
\* ready, so a request that is pending is entered once the handlers before it
\* have answered (strong fairness: entering is disabled while another handler
\* runs).  A handler that has begun goes on to its next statement, and every
\* external call it makes returns or raises (weak fairness on each step).
Fairness ==
    \A r \in Clients :
        /\ SF_vars(process_video_enter(r))
        /\ SF_vars(chat_enter(r))
        /\ SF_vars(get_status(r))
        /\ SF_vars(health_check(r))
        /\ SF_vars(request_validation_error(r))
        /\ WF_vars(\E o \in ProviderOutcomes : fetch_transcript(r, o))
        /\ WF_vars(\E o \in CallOutcomes : process_transcript_step(r, o))
        /\ WF_vars(\E o \in CallOutcomes : create_vector_store_index(r, o))
        /\ WF_vars(\E o \in CallOutcomes : create_vector_store_retriever(r, o))
        /\ WF_vars(\E o \in CallOutcomes : setup_chain(r, o))
        /\ WF_vars(process_video_finish(r))
        /\ WF_vars(\E o \in InvokeOutcomes, t \in Answers :
                      chain_invoke(r, o, t))

SpecFair == Spec /\ Fairness

\* ------------------------------------------------------------ properties ----
\* The session as it was when the handler began that the event loop is inside,
\* or that sent the response of the last step.
pre == IF running # 0 THEN reqs[running].pre ELSE resp.pre

\* The event loop is idle and the response sent last is the one of the
\* handler of a request of this kind: the state a caller sees right after that
\* request.
Answered(kind) == running = 0 /\ resp.kind = kind /\ resp.status_code # 422

FailedIngestion == Answered("process") /\ resp.status_code # 200 /\ resp.id > 0

LastStep(st) == IF st = <<>> THEN "" ELSE st[Len(st)]

Populated(s) ==
    /\ s.vector_store # None
    /\ s.retriever = s.vector_store
    /\ s.chain = s.retriever
    /\ s.current_video_id = s.vector_store.vid

\* C1: an ingestion that failed, at whichever step, left every session field
\* as it was when the ingestion began.
C1_FailedIngestionSideEffectFree ==
    FailedIngestion /\ rag_service = "RAGService" => snapshot(self) = pre

\* C2: between requests the session is empty, or fully populated with the
\* chain reading the installed index, built for current_video_id.
C2_EmptyOrPopulated ==
    running = 0 => (self = EmptySession \/ Populated(self))

\* C3: is_ready() is true exactly when some ingestion has succeeded so far
\* (false initially and until the first success, true right after each
\* success), and no step ever turns it from true to false.
C3_Readiness ==
    /\ [](is_ready(self) <=> nok > 0)
    /\ [][is_ready(self) => is_ready(self')]_vars

C3_Witness ==
    /\ FailedIngestion /\ LastStep(resp.steps) = "chain"
    /\ nok > 0 /\ is_ready(self)

\* C4: an ingestion that failed in the index build left current_video_id and
\* is_ready() as they were, and installed no index.
C4_BuildFailureKeepsSession ==
    FailedIngestion /\ LastStep(resp.steps) = "build" =>
        /\ self.current_video_id = pre.current_video_id
        /\ is_ready(self) = is_ready(pre)
        /\ Ref(self.vector_store) = pre.vector_store

C4_Witness ==
    /\ FailedIngestion /\ LastStep(resp.steps) = "build"
    /\ is_ready(pre) /\ resp.video_id # pre.current_video_id

\* C5: every answered chat retrieved from the index of the last successful
\* ingestion and from no other, and status reports that ingestion's video.
C5_ReplacedWholesale ==
    /\ Answered("chat") /\ resp.status_code = 200 =>
          resp.result.src = Ref(last_ok)
    /\ Answered("status") /\ rag_service = "RAGService" =>
          resp.result.current_video_id = last_ok.vid

C5_Witness ==
    /\ Answered("chat") /\ resp.status_code = 200
    /\ nok >= 2 /\ resp.result.src = Ref(last_ok) /\ last_ok.by >= 2

\* C6: a chat answered before any ingestion succeeded is the NotReady client
\* error, and a chat that fails after one succeeded is the internal failure,
\* with another status and another message.
HasPrefix(text, prefix) ==
    Len(text) >= Len(prefix) /\ SubSeq(text, 1, Len(prefix)) = prefix

C6_NotReadyVersusFailure ==
    Answered("chat") /\ rag_service = "RAGService" =>
        /\ nok = 0 => resp.status_code = 400 /\ resp.detail = NotReadyDetail
        /\ nok > 0 /\ resp.status_code # 200 =>
              /\ resp.status_code = 500
              /\ HasPrefix(resp.detail, QuestionFailedPrefix)
              /\ ~HasPrefix(NotReadyDetail, QuestionFailedPrefix)

C6_Witness ==
    /\ Answered("chat") /\ rag_service = "RAGService"
    /\ nok = 0 /\ ningest > 0 /\ self.vector_store # None
    /\ resp.status_code = 400

\* C7: a chat or status request that was in flight together with an ingestion
\* observed the video id, the index and the chain of one ingestion, or none of
\* the three, never a mixture of them; what it answered came from that
\* ingestion; and if it failed internally, it was the invocation of the chain
\* that raised.
OneTriple(s) ==
    /\ s.vector_store = s.chain
    /\ s.current_video_id = s.chain.vid

C7_ConsistentSnapshot ==
    /\ Answered("chat") /\ resp.raced =>
          /\ OneTriple(pre)
          /\ resp.status_code = 500 => resp.steps = <<"invoke">>
          /\ resp.status_code = 200 =>
                /\ resp.result.src = pre.vector_store
                /\ resp.result.current_video_id = resp.result.src.vid
    /\ Answered("status") /\ resp.raced /\ rag_service = "RAGService" =>
          /\ OneTriple(pre)
          /\ resp.result.ready <=> pre.chain # None
          /\ resp.result.current_video_id = pre.chain.vid

\* C8: the session update of an ingestion that races another one is a single
\* swap, so while its handler runs the session is either as the handler found
\* it or wholly this ingestion's; and an ingestion that succeeded while
\* another one was in flight left the session holding its own index,
\* retriever, chain and video id.
C8_LastWriterWins ==
    /\ \A c \in Clients :
          reqs[c].kind = "process" /\ reqs[c].raced /\ reqs[c].id > 0 =>
              \/ snapshot(self) = reqs[c].pre
              \/ Populated(self) /\ self.vector_store.by = reqs[c].id
    /\ Answered("process") /\ resp.status_code = 200 /\ resp.raced =>
          /\ self.vector_store = Index(resp.video_id, resp.id, resp.chunks)
          /\ Populated(self)

\* C9: a chat or status request, whatever its outcome, left the session as it
\* was when its handler began.
C9_QueriesReadOnly ==
    Answered("chat") \/ Answered("status") => snapshot(self) = pre

C9_Witness ==
    /\ Answered("chat") /\ resp.status_code = 500
    /\ resp.steps = <<"invoke">> /\ is_ready(self)
    /\ resp.detail = InvokeFailedDetail("connection refused")

\* C10: no step of a request is attempted twice, the steps run in program
\* order, a request that failed stopped at the step that failed, and each
\* request is answered once.
StepOrder == <<"fetch", "split", "build", "retriever", "chain", "finish">>

InOrder(kind, st) ==
    IF kind = "process"
      THEN Len(st) <= Len(StepOrder) /\ st = SubSeq(StepOrder, 1, Len(st))
      ELSE IF kind = "chat" THEN st \in {<<>>, <<"invoke">>}
      ELSE st = <<>>

C10_NoRetries ==
    /\ \A c \in Clients : reqs[c].responses = 0 /\ InOrder(reqs[c].kind, reqs[c].steps)
    /\ resp.responses <= 1
    /\ InOrder(resp.kind, resp.steps)
    /\ resp.kind = "process" /\ resp.status_code # 200 =>
          LastStep(resp.steps) # "finish"

C10_Witness ==
    /\ FailedIngestion /\ resp.steps = <<"fetch", "split", "build">>
    /\ resp.responses = 1

\* C11: a fetch that failed because captions are disabled is answered with the
\* transcript-unavailable message, any other provider failure with the
\* fetch-failed message carrying the provider's own, never the other way
\* round; a fetch that returned left the snippets in their order, one space
\* between neighbours, as transcript_text.
RECURSIVE TotalLen(_)
TotalLen(snippets) ==
    IF snippets = <<>> THEN 0 ELSE Len(snippets[1]) + TotalLen(Tail(snippets))

Offset(snippets, i) == TotalLen(SubSeq(snippets, 1, i - 1)) + (i - 1)

SpaceJoined(snippets, text) ==
    /\ Len(text) = TotalLen(snippets)
                     + (IF snippets = <<>> THEN 0 ELSE Len(snippets) - 1)
    /\ \A i \in 1..Len(snippets) :
          LET at == Offset(snippets, i) IN
          /\ SubSeq(text, at + 1, at + Len(snippets[i])) = snippets[i]
          /\ i < Len(snippets) =>
                SubSeq(text, at + Len(snippets[i]) + 1,
                       at + Len(snippets[i]) + 1) = " "

Fetched == {"split", "build", "retriever", "chain", "finish"}

C11_FetchOutcomes ==
    /\ Answered("process") /\ LastStep(resp.steps) = "fetch" =>
          /\ resp.status_code = 400
          /\ resp.provider.kind = "disabled" => resp.detail = DisabledDetail
          /\ resp.provider.kind # "disabled" =>
                /\ resp.detail = "Failed to fetch transcript: " \o resp.provider.msg
                /\ resp.detail # DisabledDetail
    /\ \A c \in Clients : reqs[c].pc \in Fetched =>
          /\ reqs[c].provider.kind = "ok"
          /\ SpaceJoined(reqs[c].provider.snippets, reqs[c].transcript_text)

C11_Witness ==
    /\ Answered("process") /\ LastStep(resp.steps) = "fetch"
    /\ resp.provider.kind = "disabled" /\ resp.detail = DisabledDetail
    /\ nok = 1 /\ resp.id = 2
    /\ last_ok.docs = <<"cats are great pets cats purr">>

\* C12: the chunker turns the empty transcript into no passage at all and
\* raises nothing for it: an ingestion of an empty transcript in which no call
\* raised by itself went through the chunking with zero chunks and ended in the
\* index build; and while no ingestion has succeeded, the chat its caller
\* sends next is answered 400 NotReady by the readiness check, before any
\* step of the query.
Chunked == {"build", "retriever", "chain", "finish"}

EmptyIngestion ==
    /\ Answered("process") /\ resp.provider.kind = "ok"
    /\ resp.transcript_text = ""

C12_EmptyTranscript ==
    /\ \A c \in Clients :
          reqs[c].pc \in Chunked /\ reqs[c].transcript_text = "" =>
              reqs[c].chunks = <<>>
    /\ EmptyIngestion /\ resp.fault = "" =>
          /\ resp.steps = <<"fetch", "split", "build">>
          /\ resp.chunks = <<>>
          /\ resp.status_code = 400
    /\ EmptyIngestion /\ nok = 0 => ~is_ready(self)
    /\ Answered("chat") /\ resp.follows_empty /\ nok = 0 =>
          /\ resp.status_code = 400
          /\ resp.detail = NotReadyDetail
          /\ resp.steps = <<>>

C12_Witness ==
    /\ Answered("chat") /\ resp.follows_empty
    /\ ningest = 1 /\ nok = 0
    /\ self.vector_store = None /\ self.chain = None
    /\ resp.status_code = 400 /\ resp.detail = NotReadyDetail
    /\ resp.steps = <<>>

\* C13: a successful process_video(v) answers video_id = v and the number of
\* chunks made of v's transcript, which is 1 for a transcript that is not
\* empty and shorter than chunk_size; right after it the service reports
\* current_video_id = v and is ready for questions.
C13_SuccessfulIngestion ==
    Answered("process") /\ resp.status_code = 200 =>
        /\ resp.result.video_id = resp.video_id
        /\ resp.chunks = create_documents[resp.transcript_text]
        /\ resp.result.chunks_count
              = Len(create_documents[resp.transcript_text])
        /\ resp.result.chunks_count >= 1
        /\ resp.transcript_text # "" /\ Len(resp.transcript_text) < chunk_size =>
              resp.result.chunks_count = 1
        /\ rag_service = "RAGService"
        /\ get_current_video_id(self) = resp.video_id
        /\ is_ready(self)

C13_Witness ==
    /\ Answered("process") /\ resp.status_code = 200
    /\ resp.transcript_text = "cats are great pets cats purr" \o VerticalTab
    /\ resp.chunks = <<"cats are great pets cats purr">>
    /\ resp.result.chunks_count = 1
    /\ nok = 2 /\ pre.current_video_id # resp.video_id

\* C14: the steps of an ingestion run in program order; no session field is
\* written before the index build has returned; nothing of an ingestion is
\* installed in the session before its index, retriever and chain have all
\* been constructed; and current_video_id is written last, by the step that
\* ends the request.
InstalledBy(s, n) ==
    s.vector_store.by = n \/ s.retriever.by = n \/ s.chain.by = n

Has(st, name) == \E i \in 1..Len(st) : st[i] = name

C14_BuiltAsideThenInstalled ==
    \A c \in Clients : reqs[c].kind = "process" /\ reqs[c].id > 0 =>
        /\ InOrder("process", reqs[c].steps)
        /\ ~Has(reqs[c].steps, "build") => snapshot(self) = reqs[c].pre
        /\ InstalledBy(self, reqs[c].id) => Has(reqs[c].steps, "chain")
        /\ self.current_video_id = reqs[c].pre.current_video_id

\* C15: a chat answered with 200 put min(2, n) passages in the context of the
\* prompt, n being the number of passages of the index installed in the
\* session, self.vector_store; the passages are distinct passages of that
\* index; the context is these passages in the order retrieved with a blank
\* line between neighbours; and the answer returned is the text the model
\* generated, unmodified.
BlankLineJoined(parts, text) ==
    /\ Len(text) = TotalLen(parts)
                     + (IF parts = <<>> THEN 0 ELSE 2 * (Len(parts) - 1))
    /\ \A i \in 1..Len(parts) :
          LET at == TotalLen(SubSeq(parts, 1, i - 1)) + 2 * (i - 1) IN
          /\ SubSeq(text, at + 1, at + Len(parts[i])) = parts[i]
          /\ i < Len(parts) =>
                SubSeq(text, at + Len(parts[i]) + 1,
                       at + Len(parts[i]) + 2) = "\n\n"

PassagesOf(idx, got) ==
    \E f \in [1..Len(got) -> 1..Len(idx.docs)] :
        /\ \A i, j \in 1..Len(got) : f[i] = f[j] => i = j
        /\ \A i \in 1..Len(got) : got[i] = idx.docs[f[i]]

C15_ContextAndAnswer ==
    Answered("chat") /\ resp.status_code = 200 =>
        LET n == Len(self.vector_store.docs)
            got == resp.result.retrieved
        IN /\ is_ready(self)
           /\ Len(got) = Min(k, n)
           /\ PassagesOf(self.vector_store, got)
           /\ BlankLineJoined(got, resp.result.context)
           /\ resp.result.answer = resp.result.generated
           /\ resp.result.answer \in Answers

\* C16 as written: every process_video and chat request completes with one
\* outcome and no request waits on another request, so a request that is
\* pending is never held up by the handler of another one.
C16_NoRequestWaits ==
    \A c \in Clients :
        reqs[c].kind \in {"process", "chat"} /\ reqs[c].pc = "pending" =>
            running = 0

\* C16: every process_video and chat request that was sent is answered in the
\* end, with one response: a 200 with its result or one failure status; no
\* response is sent but to a request that ends with it.  A request whose
\* handler has begun is the one the event loop runs, it waits for no other
\* request; a pending one waits only while the handler of another runs.
InFlight(c) == reqs[c].kind \in {"process", "chat"} /\ reqs[c].pc # "idle"

Ends(c) == reqs[c].pc # "idle" /\ reqs'[c].pc = "idle"

OneOutcome ==
    /\ \A c \in Clients : Ends(c) =>
          /\ resp'.kind = reqs[c].kind /\ resp'.video_id = reqs[c].video_id
          /\ resp'.responses = 1
          /\ resp'.status_code \in {200, 400, 422, 500, 503}
          /\ resp'.status_code = 200 <=> resp'.result # NoResult
    /\ resp' # NoResponse => \E c \in Clients : Ends(c)
    /\ Cardinality({c \in Clients : Ends(c)}) <= 1

C16_EveryRequestCompletes ==
    /\ \A c \in Clients : InFlight(c) ~> reqs[c].pc = "idle"
    /\ [][OneOutcome]_vars
    /\ [](\A c \in Clients :
            /\ reqs[c].pc \notin {"idle", "pending"} => running = c
            /\ reqs[c].pc = "pending" /\ running # 0 =>
                  running # c /\ reqs[running].pc \notin {"idle", "pending"})

C16_Witness ==
    /\ Answered("chat") /\ resp.status_code = 200 /\ resp.raced
    /\ \E c \in Clients : ingestion(reqs[c]) /\ reqs[c].pc = "pending"
    /\ nok = 1 /\ ningest = 1

\* C17: between requests current_video_id is set only if chain, retriever and
\* vector_store are set; a status response reports ready_for_questions true
\* exactly when it reports a current_video_id; and no step turns a
\* current_video_id that is set back to None.
C17_VideoIdImpliesChain ==
    /\ [](running = 0 /\ self.current_video_id # NoVideo =>
            /\ self.chain # None
            /\ self.retriever # None
            /\ self.vector_store # None)
    /\ [](Answered("status") =>
            (resp.result.ready <=> resp.result.current_video_id # NoVideo))
    /\ [][self.current_video_id # NoVideo => self'.current_video_id # NoVideo]_vars

C17_Witness ==
    /\ Answered("status") /\ resp.result.ready
    /\ resp.result.current_video_id = "BBBBBBBBBBB"
    /\ self.vector_store # self.chain /\ nok = 1 /\ ningest = 2

\* C18: a request answered while rag_service is None got the
\* service-unavailable answer: /process-video and /chat a 503 with "RAG
\* service is not available", /health a 503, /status a 200 reporting
\* not_initialized and not ready; and the session is still empty.
C18_UnavailableWhileNotInitialised ==
    rag_service = "None" /\ resp # NoResponse /\ running = 0
        /\ resp.status_code # 422 =>
        /\ resp.kind \in {"process", "chat"} =>
              resp.status_code = 503 /\ resp.detail = Unavailable
        /\ resp.kind = "health" => resp.status_code = 503
        /\ resp.kind = "status" =>
              /\ resp.result.service_status = "not_initialized"
              /\ ~resp.result.ready
        /\ self = EmptySession

====
